---- MODULE Spec2Model ----
(***************************************************************************)
(* Model of the process-orchestration bridge of demo/streamlit_app.py:     *)
(* the streaming runner run_cli_stream, the trailing-record extractor      *)
(* extract_last_json_block, normalize_url, update_progress_step and the    *)
(* tools Plan, Deploy and Diagnose that drive them, with the session store *)
(* the tools share, the preference tool ModifyPlan and the log reader      *)
(* TailLogs.                                                               *)
(*                                                                         *)
(* Text.  A Python str is a sequence of tokens.  A token is one character  *)
(* ("{", "}", "\"", ":", ",", " ", "\n", a digit) or a word: a run of      *)
(* plain characters that the program only ever copies or compares whole    *)
(* ("url", "Building...", "https:", "//").  No word holds a quote, a brace  *)
(* or a backslash, none starts like a JSON value except the literal word   *)
(* "null", and the scheme and the leading slashes of a URL occur only as   *)
(* the words "http:", "https:" and "//", so that equal strings are equal   *)
(* token sequences.  A file path is one word.                              *)
(***************************************************************************)
EXTENDS Integers, Sequences, FiniteSets, TLC

(***************************************************************************)
(* Bounds of the model.                                                    *)
(***************************************************************************)
MaxLines == 3
MaxPieces == 5
MaxOps == 2
MaxCalls == 3
MaxLogLines == 6
MaxRecords == 3

(***************************************************************************)
(* Text helpers.                                                           *)
(***************************************************************************)
Whitespace == {" ", "\n"}
Digits == {"0", "1"}

Suffix(s, i) == SubSeq(s, i, Len(s))

StartsWith(s, p) == Len(s) >= Len(p) /\ SubSeq(s, 1, Len(p)) = p

RECURSIVE Join(_)
Join(ls) == IF ls = <<>> THEN <<>> ELSE Head(ls) \o Join(Tail(ls))

RECURSIVE SkipWs(_, _)
SkipWs(s, i) ==
    IF i <= Len(s) /\ s[i] \in Whitespace THEN SkipWs(s, i + 1) ELSE i

RECURSIVE LStrip(_)
LStrip(s) == IF s # <<>> /\ Head(s) \in Whitespace THEN LStrip(Tail(s)) ELSE s

RECURSIVE RStrip(_)
RStrip(s) ==
    IF s # <<>> /\ s[Len(s)] \in Whitespace
    THEN RStrip(SubSeq(s, 1, Len(s) - 1)) ELSE s

Strip(s) == RStrip(LStrip(s))

(***************************************************************************)
(* JSON values, as Python's json module builds them: None, int, str, dict. *)
(* Every value is a record of the same shape; a dict is the sequence of    *)
(* its items in insertion order.                                           *)
(***************************************************************************)
JNull == [kind |-> "null", str |-> <<>>, num |-> 0, items |-> <<>>]
JNum(n) == [kind |-> "int", str |-> <<>>, num |-> n, items |-> <<>>]
JStr(s) == [kind |-> "str", str |-> s, num |-> 0, items |-> <<>>]
JObj(its) == [kind |-> "dict", str |-> <<>>, num |-> 0, items |-> its]
Item(k, v) == [key |-> k, val |-> v]

\* The result of a parse step: ok, the position after the value, the value.
Parsed(p, v) == [ok |-> TRUE, pos |-> p, val |-> v]
ParseError == [ok |-> FALSE, pos |-> 0, val |-> JNull]

\* dict(pairs): a repeated key keeps its first position and takes the last value.
RECURSIVE DictOf(_)
DictOf(pairs) ==
    IF pairs = <<>> THEN <<>>
    ELSE LET n == Len(pairs)
             last == pairs[n]
             before == DictOf(SubSeq(pairs, 1, n - 1))
         IN  IF \E j \in 1..Len(before) : before[j].key = last.key
             THEN [j \in 1..Len(before) |->
                      IF before[j].key = last.key THEN last ELSE before[j]]
             ELSE Append(before, last)

HasKey(d, k) == \E j \in 1..Len(d.items) : d.items[j].key = k

\* dict.get(k): the value of key k, None when the key is absent.
DictGet(d, k) ==
    IF HasKey(d, k)
    THEN (CHOOSE it \in {d.items[j] : j \in 1..Len(d.items)} : it.key = k).val
    ELSE JNull

\* Python truth value of a JSON value.
Truthy(v) ==
    CASE v.kind = "null" -> FALSE
      [] v.kind = "int" -> v.num # 0
      [] v.kind = "str" -> v.str # <<>>
      [] v.kind = "dict" -> v.items # <<>>

(***************************************************************************)
(* json.loads: the decoder of the standard library, on the tokens above.   *)
(***************************************************************************)
\* scanstring: s[i] is the token after the opening quote.  A control
\* character (here "\n") inside a string is an error.
RECURSIVE ScanString(_, _, _)
ScanString(s, i, acc) ==
    IF i > Len(s) THEN ParseError
    ELSE IF s[i] = "\"" THEN Parsed(i + 1, acc)
    ELSE IF s[i] = "\n" THEN ParseError
    ELSE ScanString(s, i + 1, Append(acc, s[i]))

DigitValue(c) == IF c = "0" THEN 0 ELSE 1

\* NUMBER_RE: 0 | [1-9][0-9]*  (no fraction or exponent in the alphabet).
RECURSIVE ScanDigits(_, _, _)
ScanDigits(s, i, n) ==
    IF i <= Len(s) /\ s[i] \in Digits
    THEN ScanDigits(s, i + 1, 10 * n + DigitValue(s[i]))
    ELSE Parsed(i, n)

ScanNumber(s, i) ==
    IF s[i] = "0" THEN Parsed(i + 1, JNum(0))
    ELSE LET r == ScanDigits(s, i, 0) IN Parsed(r.pos, JNum(r.val))

RECURSIVE ScanOnce(_, _), ScanMembers(_, _, _)
\* JSONObject's loop: s[i] is the token after the opening quote of a key.
ScanMembers(s, i, pairs) ==
    LET k == ScanString(s, i, <<>>) IN
    IF ~k.ok THEN ParseError
    ELSE LET c == SkipWs(s, k.pos) IN
    IF c > Len(s) \/ s[c] # ":" THEN ParseError
    ELSE LET v == ScanOnce(s, SkipWs(s, c + 1)) IN
    IF ~v.ok THEN ParseError
    ELSE LET e == SkipWs(s, v.pos)
             ps == Append(pairs, Item(k.val, v.val)) IN
    IF e > Len(s) THEN ParseError
    ELSE IF s[e] = "}" THEN Parsed(e + 1, JObj(DictOf(ps)))
    ELSE IF s[e] # "," THEN ParseError
    ELSE LET q == SkipWs(s, e + 1) IN
    IF q > Len(s) \/ s[q] # "\"" THEN ParseError
    ELSE ScanMembers(s, q + 1, ps)

\* scan_once: the value that starts at s[i].
ScanOnce(s, i) ==
    IF i > Len(s) THEN ParseError
    ELSE IF s[i] = "\"" THEN
        LET r == ScanString(s, i + 1, <<>>) IN
        IF r.ok THEN Parsed(r.pos, JStr(r.val)) ELSE ParseError
    ELSE IF s[i] = "{" THEN
        LET q == SkipWs(s, i + 1) IN
        IF q > Len(s) THEN ParseError
        ELSE IF s[q] = "}" THEN Parsed(q + 1, JObj(<<>>))
        ELSE IF s[q] # "\"" THEN ParseError
        ELSE ScanMembers(s, q + 1, <<>>)
    ELSE IF s[i] = "null" THEN Parsed(i + 1, JNull)
    ELSE IF s[i] \in Digits THEN ScanNumber(s, i)
    ELSE ParseError

\* JSONDecoder.decode: one value between optional white space, nothing after.
JsonLoads(s) ==
    LET r == ScanOnce(s, SkipWs(s, 1)) IN
    IF r.ok /\ SkipWs(s, r.pos) = Len(s) + 1 THEN r ELSE ParseError

(***************************************************************************)
(* json.dumps with the default separators ", " and ": ".  No string of the *)
(* model holds a character that dumps would escape.                        *)
(***************************************************************************)
\* The decimal digits of an int; the ints of the model are written with 0 and 1.
DigitChar(d) == IF d = 0 THEN "0" ELSE "1"

RECURSIVE DigitsOf(_)
DigitsOf(n) ==
    IF n < 10 THEN <<DigitChar(n)>>
    ELSE Append(DigitsOf(n \div 10), DigitChar(n % 10))

Quoted(s) == <<"\"">> \o s \o <<"\"">>

RECURSIVE JsonDumps(_), DumpItems(_)
DumpItems(its) ==
    IF its = <<>> THEN <<>>
    ELSE Quoted(its[1].key) \o <<":", " ">> \o JsonDumps(its[1].val)
         \o (IF Len(its) > 1 THEN <<",", " ">> \o DumpItems(Tail(its)) ELSE <<>>)

JsonDumps(v) ==
    CASE v.kind = "null" -> <<"null">>
      [] v.kind = "int" -> DigitsOf(v.num)
      [] v.kind = "str" -> Quoted(v.str)
      [] v.kind = "dict" -> <<"{">> \o DumpItems(v.items) \o <<"}">>

(***************************************************************************)
(* extract_last_json_block: from the last token backward, the first "{"    *)
(* whose suffix json.loads accepts.                                        *)
(***************************************************************************)
None == [some |-> FALSE, val |-> JNull]
Some(v) == [some |-> TRUE, val |-> v]

\* A decoder that stops after the first value and ignores what follows it.
DecodesPrefix(s) == ScanOnce(s, SkipWs(s, 1)).ok

\* json.loads(candidate) returns without raising.
Decodes(s) == JsonLoads(s).ok

\* The loop with a range that stops before the first token.
RECURSIVE ExtractIndexSkipsFirst(_, _)
ExtractIndexSkipsFirst(s, i) ==
    IF i < 2 THEN 0
    ELSE IF s[i] = "{" /\ Decodes(Suffix(s, i)) THEN i
    ELSE ExtractIndexSkipsFirst(s, i - 1)

\* The index the loop returns at, 0 when it runs to the end.
RECURSIVE ExtractIndex(_, _)
ExtractIndex(s, i) ==
    IF i < 1 THEN 0
    ELSE IF s[i] = "{" /\ Decodes(Suffix(s, i)) THEN i
    ELSE ExtractIndex(s, i - 1)

extract_last_json_block(s) ==
    LET i == ExtractIndex(s, Len(s)) IN
    IF i = 0 THEN None ELSE Some(JsonLoads(Suffix(s, i)).val)

(***************************************************************************)
(* normalize_url on a str; the words "http:", "https:" and "//" are the    *)
(* only tokens that hold a slash or a scheme.                              *)
(***************************************************************************)
Http == <<"http:", "//">>
Https == <<"https:", "//">>

normalize_url(u) ==
    IF u = <<>> THEN u
    ELSE LET s == Strip(u) IN
         IF StartsWith(s, Http) \/ StartsWith(s, Https) THEN s
         ELSE IF StartsWith(s, <<"//">>) THEN <<"https:">> \o s
         ELSE Https \o s

(***************************************************************************)
(* The inputs of the model.                                                *)
(***************************************************************************)
\* Lines the spawned command can write; readline returns each with its
\* newline, and a last line may lack one.
LineBuilding == <<"Building...", "\n">>
LineUrl == <<"{", "\"", "url", "\"", ":", "\"", "a.b", "\"", "}", "\n">>
LineNested ==
    <<"{", "\"", "id", "\"", ":", "{", "\"", "url", "\"", ":",
      "\"", "//", "a.b", "\"", "}", "}", "\n">>
LineEmptyObject == <<"{", "}">>
LineUrlInt == <<"{", "\"", "url", "\"", ":", "1", "}", "\n">>
LineOne == <<"1", "\n">>
LineUrlSlashes ==
    <<"{", "\"", "url", "\"", ":", "\"", "//", "a.b", "\"", "}", "\n">>
LineUrlBlank == <<"{", "\"", "url", "\"", ":", "\"", " ", "\"", "}", "\n">>
LineUrlEmpty == <<"{", "\"", "url", "\"", ":", "\"", "\"", "}", "\n">>
LineUrlHttp ==
    <<"{", "\"", "url", "\"", ":", "\"", "http:", "//", "a.b", "\"", "}", "\n">>
LineTag == <<"<", "b", ">", "\n">>
OutputLines ==
    {LineBuilding, LineUrl, LineNested, LineEmptyObject, LineUrlInt, LineOne}

\* Lines that carry a top-level url of each shape.
UrlLines ==
    {LineUrl, LineUrlSlashes, LineUrlBlank, LineUrlEmpty, LineUrlHttp, LineUrlInt}

\* The url arguments of ShowPreview: empty, white space only, without a
\* scheme, with slashes only, with a scheme, and with white space around.
PreviewUrls ==
    {<<>>, <<" ">>, <<"a.b">>, <<"//", "a.b">>, Http \o <<"a.b">>,
     Https \o <<"a.b">>, <<" ", "a.b", "\n">>, <<" ", "http:", "//", "a.b", " ">>}

\* Exit codes of the command.
ExitCodes == {0, 1}

\* str(e) of an exception raised while reading the output.
ReadErrors == {<<"[Errno 5] Input/output error">>, <<"codec can't decode byte">>}

\* The exception Popen raises when the command cannot be spawned.
SpawnError == <<"OSError">>
AttributeError == <<"AttributeError">>

\* str(CLI_PATH) and the session id drawn when the session starts.
CLI_PATH == <<"/repo/agent/cli/index.js">>
SessionId == <<"s-1a2b3c4d">>

\* The arguments of a tool call.  An optional string the caller leaves out
\* is None.
NoRequest ==
    [project_path |-> JNull, provider |-> JNull, method |-> JNull,
     session_id |-> JNull, dry_run |-> FALSE, yes |-> TRUE,
     log_path |-> JNull, record_id |-> JNull,
     output_dir |-> JNull, domain |-> JNull]

ProjectPath == JStr(<<"/app">>)
PlanDefault == [NoRequest EXCEPT !.project_path = ProjectPath]
DeployDefault == [NoRequest EXCEPT !.project_path = ProjectPath]
DiagnoseNoInput == NoRequest
DiagnoseById == [NoRequest EXCEPT !.record_id = JStr(<<"d1">>)]

\* Requests with explicit fields; an empty string is a value a caller can pass.
Str(w) == JStr(<<w>>)
PlanExplicit ==
    [PlanDefault EXCEPT !.provider = Str("vercel"), !.method = Str("cli"),
                        !.session_id = Str("s-user")]
PlanEmptyProvider ==
    [PlanDefault EXCEPT !.provider = JStr(<<>>), !.session_id = JStr(<<>>)]
PlanRequests == {PlanDefault, PlanExplicit, PlanEmptyProvider}

DeployDryRun ==
    [DeployDefault EXCEPT !.session_id = Str("s-user"), !.dry_run = TRUE,
                          !.yes = FALSE]
DeployRequests == {DeployDefault, DeployDryRun}

DiagnoseByLog ==
    [NoRequest EXCEPT !.project_path = ProjectPath,
                      !.log_path = Str("/logs/a.log")]
DiagnoseEmptyStrings ==
    [NoRequest EXCEPT !.log_path = JStr(<<>>), !.record_id = JStr(<<>>)]
DiagnoseRequests ==
    {DiagnoseNoInput, DiagnoseByLog, DiagnoseEmptyStrings}

PrefFields == {"provider", "method", "output_dir", "domain"}
PrefNetlify == [NoRequest EXCEPT !.provider = Str("netlify")]
PrefVercelCli ==
    [NoRequest EXCEPT !.provider = Str("vercel"), !.method = Str("cli")]
PrefGitDomain ==
    [NoRequest EXCEPT !.method = Str("git"), !.domain = Str("a.b")]
PrefEmptyProvider ==
    [NoRequest EXCEPT !.provider = JStr(<<>>), !.output_dir = Str("dist")]
PrefRequests ==
    {PrefNetlify, PrefVercelCli, PrefGitDomain, PrefEmptyProvider}

\* Pieces the extractor's input is put together from: an open brace with a
\* key, a comma with a key, an empty object, a closing brace with a newline,
\* a quote, a digit and a word.
Pieces ==
    { <<"{", "\"", "a", "\"", ":">>, <<",", "\"", "a", "\"", ":">>,
      <<"{", "}">>, <<"}", "\n">>, <<"\"">>, <<"1">>, <<"x">> }

(***************************************************************************)
(* The state.                                                              *)
(***************************************************************************)
VARIABLES
    op,               \* the tool called last: "Plan", "Deploy", "Diagnose"; "none" before
    proc,             \* its child process: "none", "running", "exited", "killed"
    fault,            \* what went wrong in its run: "none", "spawn", "read"
    produced,         \* the lines the child has written and the runner has read
    full,             \* run_cli_stream: the list full
    events,           \* the events run_cli_stream has yielded in this run
    raised,           \* the exception that left run_cli_stream, <<>> when none did
    buffer,           \* the tool's list of lines (out_lines, buffer, collected)
    deploy_progress,  \* st.session_state.deploy_progress
    reported,         \* the calls of update_progress_step in this tool call
    current_logs,     \* st.session_state.current_logs
    log_shown,        \* what log_placeholder shows
    status_badge,     \* what status_placeholder shows
    last_deploy_url,  \* st.session_state["last_deploy_url"]
    result,           \* how the tool call ended and its value
    prefs,            \* st.session_state["prefs"]
    prefCalls,        \* the arguments of the ModifyPlan calls so far, in order
    session_id,       \* st.session_state["session_id"]
    request,          \* the arguments of the tool call
    cmd,              \* the command line the tool call built, <<>> when it built none
    spawns,           \* the calls of Popen in this tool call
    deployments,      \* the file state/deployments.json
    logfiles,         \* the log files, by path
    opened,           \* the log files the last TailLogs call has read
    tail,             \* where a TailLogs call stands, and its local logs_path
    nOps,             \* calls of Plan, Deploy and Diagnose so far
    nCalls,           \* calls of ModifyPlan so far
    nLines,           \* lines read so far
    text,             \* the extractor's argument
    nPieces,          \* pieces in text
    extracted         \* the extractor's result on text

runVars == <<proc, fault, produced, full, events, raised>>
uiVars == <<current_logs, log_shown, status_badge>>
extractVars == <<text, nPieces, extracted>>
storeVars == <<prefs, prefCalls, session_id>>
callVars == <<request, cmd, spawns>>
fsVars == <<deployments, logfiles, opened, tail>>
bridgeVars == <<op, proc, fault, produced, full, events, raised, buffer,
                deploy_progress, reported, current_logs, log_shown,
                status_badge, last_deploy_url, result, prefs, prefCalls,
                session_id, request, cmd, spawns, deployments, logfiles, opened,
                tail, nOps, nCalls, nLines>>
vars == <<op, proc, fault, produced, full, events, raised, buffer,
          deploy_progress, reported, current_logs, log_shown, status_badge,
          last_deploy_url, result, prefs, prefCalls, session_id, request,
          cmd, spawns,
          deployments, logfiles, opened, tail, nOps, nCalls, nLines,
          text, nPieces, extracted>>

\* A tool call is in progress exactly while its child runs: the tool blocks
\* in the runner's loop and returns on the terminal event.
Busy == proc = "running"

\* A TailLogs call is between two of its file-system calls.
NotReading == [pc |-> "none", logs_path |-> JNull]
Reading == tail.pc # "none"

Progress(step, status) == [step |-> step, status |-> status]

\* The progress states the tools report.
PlanStartedCompleted == Progress(1, "completed")
PlanStarted == Progress(1, "active")
PlanCompletedActive == Progress(1, "active")
PlanCompleted == Progress(1, "completed")
DeployStartedReset == Progress(0, "idle")
DeployStarted == Progress(2, "active")
VerifyingRegressed == Progress(1, "active")
Verifying == Progress(3, "active")
VerifiedNoUrl == Progress(3, "completed")
Previewed == Progress(4, "completed")

Event(kind, payload, rc) == [kind |-> kind, text |-> payload, rc |-> rc]

NoResult == [kind |-> "none", val |-> <<>>]
Return(v) == [kind |-> "return", val |-> v]
Raise(e) == [kind |-> "raise", val |-> e]

\* The record Deploy returns when it has no final_json.
NoRecordError ==
    JObj(<<Item(<<"type">>, JStr(<<"Error">>)),
           Item(<<"message">>,
                JStr(<<"Deploy finished but no JSON record captured.">>))>>)

ErrorPrefix == <<"Error", ":", " ">>

\* The logbox markup: '<' is replaced by '&lt;' in the joined buffer.
EscapeLt(s) == [j \in 1..Len(s) |-> IF s[j] = "<" THEN "&lt;" ELSE s[j]]
LogBox(s) == <<"<div class='logbox'>">> \o s \o <<"</div>">>

(***************************************************************************)
(* The files TailLogs reads.  state/deployments.json is absent, unreadable *)
(* as JSON, or a list of records; a log file is absent or a text.          *)
(***************************************************************************)
NoStateFile == [exists |-> FALSE, valid |-> TRUE, records |-> <<>>]
StateFile(recs) == [exists |-> TRUE, valid |-> TRUE, records |-> recs]
CorruptStateFile == [exists |-> TRUE, valid |-> FALSE, records |-> <<>>]

NoFile == [exists |-> FALSE, content |-> <<>>]
File(content) == [exists |-> TRUE, content |-> content]

LogPaths == {<<"/logs/a.log">>, <<"/logs/b.log">>}

\* The records of the history: a dict with an id and, unless the deployment
\* kept no logs, the path of its log file.
Rec(id, path) ==
    JObj(<<Item(<<"id">>, JStr(<<id>>)), Item(<<"logsPath">>, JStr(path))>>)
RecNoLogs(id) == JObj(<<Item(<<"id">>, JStr(<<id>>))>>)
HistoryRecords ==
    { Rec("d1", <<"/logs/a.log">>), Rec("d1", <<"/logs/b.log">>),
      RecNoLogs("d2") }

\* The record ids TailLogs is asked for; no record has the last one.
RecordIds == {JStr(<<"d1">>), JStr(<<"d2">>), JStr(<<"d9">>)}

\* The number of lines TailLogs returns at most.
TailLimit == 200

\* A log text of n numbered lines; the last line has its newline when closed.
LogLine(path, i) == path \o <<":", ToString(i), "\n">>
LogText(path, n, closed) ==
    [k \in 1..(4 * n - (IF closed \/ n = 0 THEN 0 ELSE 1)) |->
        LogLine(path, ((k - 1) \div 4) + 1)[((k - 1) % 4) + 1]]

\* The shapes of a log file: empty, two lines with the last one unclosed,
\* as many lines as the limit, and one more.
LogShapes ==
    { [n |-> 0, closed |-> TRUE], [n |-> 2, closed |-> FALSE],
      [n |-> TailLimit, closed |-> TRUE], [n |-> TailLimit + 1, closed |-> TRUE] }

Init ==
    /\ op = "none"
    /\ proc = "none"
    /\ fault = "none"
    /\ produced = <<>>
    /\ full = <<>>
    /\ events = <<>>
    /\ raised = <<>>
    /\ buffer = <<>>
    /\ deploy_progress = Progress(0, "idle")
    /\ reported = <<>>
    /\ current_logs = <<>>
    /\ log_shown = <<>>
    /\ status_badge = <<>>
    /\ last_deploy_url = None
    /\ result = NoResult
    /\ prefs = JObj(<<>>)
    /\ prefCalls = <<>>
    /\ session_id = JStr(SessionId)
    /\ request = NoRequest
    /\ cmd = <<>>
    /\ spawns = 0
    /\ deployments = NoStateFile
    /\ logfiles = [path \in LogPaths |-> NoFile]
    /\ opened = {}
    /\ tail = NotReading
    /\ nOps = 0
    /\ nCalls = 0
    /\ nLines = 0
    /\ text = <<>>
    /\ nPieces = 0
    /\ extracted = None

(***************************************************************************)
(* A tool is called.  The call runs to the first readline of the runner:   *)
(* the progress update, then Popen, which starts the child or raises.      *)
(* Popen is outside the try of run_cli_stream, so its exception leaves the *)
(* generator and the tool.                                                 *)
(***************************************************************************)
Popen(spawned) ==
    /\ spawns' = 1
    /\ produced' = <<>>
    /\ full' = <<>>
    /\ events' = <<>>
    /\ IF spawned
       THEN /\ proc' = "running"
            /\ fault' = "none"
            /\ raised' = <<>>
            /\ result' = NoResult
       ELSE /\ proc' = "none"
            /\ fault' = "spawn"
            /\ raised' = SpawnError
            /\ result' = Raise(SpawnError)

\* " ".join(args)
RECURSIVE JoinSpaced(_)
JoinSpaced(args) ==
    IF args = <<>> THEN <<>>
    ELSE IF Len(args) = 1 THEN args[1]
    ELSE args[1] \o <<" ">> \o JoinSpaced(Tail(args))

\* x or y with the operands swapped.
OrStoredFirst(x, y) == IF Truthy(y) THEN y ELSE x

\* x or y
Or(x, y) == IF Truthy(x) THEN x ELSE y

\* if not session_id: session_id = st.session_state.get("session_id")
SessionOf(req, sid) == IF ~Truthy(req.session_id) THEN sid ELSE req.session_id

\* The argument a truthy value adds to the command line.
Flag(name, v) == IF Truthy(v) THEN << <<name, " ">> \o v.str >> ELSE <<>>
QuotedFlag(name, v) ==
    IF Truthy(v) THEN << <<name, " ">> \o Quoted(v.str) >> ELSE <<>>

\* The provider and the method Plan puts on its command line.
PlanProvider(req, p) == Or(req.provider, DictGet(p, <<"provider">>))
PlanMethod(req, p) == Or(req.method, DictGet(p, <<"method">>))

\* The command line of Plan.
PlanCmd(req, p, sid) ==
    JoinSpaced(
        << <<"node", " ">> \o CLI_PATH \o <<" ", "plan", " ", "--path", " ">>
           \o Quoted(req.project_path.str) \o <<" ", "--json-only">> >>
        \o Flag("--provider", PlanProvider(req, p))
        \o Flag("--method", PlanMethod(req, p))
        \o Flag("--session", SessionOf(req, sid)))

\* The command line of Deploy.
DeployCmd(req, p, sid) ==
    JoinSpaced(
        << <<"node", " ">> \o CLI_PATH \o <<" ", "deploy", " ", "--path", " ">>
           \o Quoted(req.project_path.str) >>
        \o Flag("--provider", DictGet(p, <<"provider">>))
        \o Flag("--method", DictGet(p, <<"method">>))
        \o Flag("--session", SessionOf(req, sid))
        \o (IF req.dry_run THEN << <<"--dry-run">> >> ELSE <<>>)
        \o (IF req.yes THEN << <<"--yes", " ", "--non-interactive">> >> ELSE <<>>))

\* The command line of Diagnose.
DiagnoseCmd(req) ==
    JoinSpaced(
        << <<"node", " ">> \o CLI_PATH \o <<" ", "diagnose", " ", "--json-only">> >>
        \o QuotedFlag("--path", req.project_path)
        \o QuotedFlag("--log", req.log_path)
        \o Flag("--id", req.record_id))

tool_plan_start(req, spawned) ==
    /\ ~Busy
    /\ ~Reading
    /\ nOps < MaxOps
    /\ op' = "Plan"
    /\ request' = req
    /\ nOps' = nOps + 1
    /\ deploy_progress' = PlanStarted
    /\ reported' = <<PlanStarted>>
    /\ cmd' = PlanCmd(req, prefs, session_id)
    /\ buffer' = <<>>
    /\ Popen(spawned)
    /\ UNCHANGED <<uiVars, last_deploy_url, storeVars, fsVars, nCalls, nLines,
                   extractVars>>

tool_deploy_start(req, spawned) ==
    /\ ~Busy
    /\ ~Reading
    /\ nOps < MaxOps
    /\ op' = "Deploy"
    /\ request' = req
    /\ nOps' = nOps + 1
    /\ deploy_progress' = DeployStarted
    /\ reported' = <<DeployStarted>>
    /\ cmd' = DeployCmd(req, prefs, session_id)
    /\ buffer' = <<>>
    /\ Popen(spawned)
    /\ UNCHANGED <<uiVars, last_deploy_url, storeVars, fsVars, nCalls, nLines,
                   extractVars>>

\* Diagnose with neither log_path nor record_id returns before it spawns.
MissingInput == ErrorPrefix \o <<"Provide either log_path or record_id.">>

\* A call that runs the command all the same, unread, to its exit.
NoRunSpawned ==
    /\ proc' = "exited"
    /\ fault' = "none"
    /\ produced' = <<>>
    /\ full' = <<>>
    /\ events' = <<>>
    /\ raised' = <<>>
    /\ spawns' = 1

\* The run of a tool call that never reaches run_cli_stream.
NoRun ==
    /\ proc' = "none"
    /\ fault' = "none"
    /\ produced' = <<>>
    /\ full' = <<>>
    /\ events' = <<>>
    /\ raised' = <<>>
    /\ spawns' = 0

tool_diagnose_start(req, spawned) ==
    /\ ~Busy
    /\ ~Reading
    /\ nOps < MaxOps
    /\ op' = "Diagnose"
    /\ request' = req
    /\ nOps' = nOps + 1
    /\ reported' = <<>>
    /\ buffer' = <<>>
    /\ IF ~Truthy(req.log_path) /\ ~Truthy(req.record_id)
       THEN /\ result' = Return(MissingInput)
            /\ cmd' = <<>>
            /\ NoRun
       ELSE /\ cmd' = DiagnoseCmd(req)
            /\ Popen(spawned)
    /\ UNCHANGED <<deploy_progress, uiVars, last_deploy_url, storeVars, fsVars,
                   nCalls, nLines, extractVars>>

(***************************************************************************)
(* ModifyPlan merges the fields of the call into the stored preferences    *)
(* and returns the merged set.                                             *)
(***************************************************************************)
\* An assignment that adds the pair even to a dict that holds the key.
SetIfGivenAppends(p, key, v) ==
    IF Truthy(v) THEN JObj(p.items \o <<Item(<<key>>, v)>>) ELSE p

\* if value: prefs[key] = value
SetIfGiven(p, key, v) ==
    IF Truthy(v) THEN JObj(DictOf(p.items \o <<Item(<<key>>, v)>>)) ELSE p

\* A merge that starts from an empty dict on every call.
MergePrefsFromEmpty(p, req) ==
    SetIfGiven(SetIfGiven(SetIfGiven(SetIfGiven(JObj(<<>>),
        "provider", req.provider), "method", req.method),
        "output_dir", req.output_dir), "domain", req.domain)

\* The four assignments of tool_modify_plan, in their order.
MergePrefs(p, req) ==
    SetIfGiven(SetIfGiven(SetIfGiven(SetIfGiven(p,
        "provider", req.provider), "method", req.method),
        "output_dir", req.output_dir), "domain", req.domain)

\* A returned record that leaves the preferences out.
PrefsUpdatedBare(p) == JObj(<<Item(<<"type">>, Str("PrefsUpdated"))>>)

\* {"type": "PrefsUpdated", **prefs}
PrefsUpdated(p) ==
    JObj(DictOf(<<Item(<<"type">>, Str("PrefsUpdated"))>> \o p.items))

tool_modify_plan(req) ==
    /\ ~Busy
    /\ ~Reading
    /\ nCalls < MaxCalls
    /\ op' = "ModifyPlan"
    /\ request' = req
    /\ nCalls' = nCalls + 1
    /\ prefs' = MergePrefs(prefs, req)
    /\ prefCalls' = Append(prefCalls, req)
    /\ result' = Return(JsonDumps(PrefsUpdated(prefs')))
    /\ cmd' = <<>>
    /\ reported' = <<>>
    /\ buffer' = <<>>
    /\ NoRun
    /\ UNCHANGED <<deploy_progress, uiVars, last_deploy_url, session_id, fsVars,
                   nOps, nLines, extractVars>>

(***************************************************************************)
(* ShowPreview normalizes its url and caches it, whatever it is.           *)
(***************************************************************************)
tool_show_preview(url) ==
    /\ ~Busy
    /\ ~Reading
    /\ op' = "ShowPreview"
    /\ request' = NoRequest
    /\ last_deploy_url' = Some(JStr(normalize_url(url)))
    /\ result' = Return(normalize_url(url))
    /\ cmd' = <<>>
    /\ reported' = <<>>
    /\ buffer' = <<>>
    /\ NoRun
    /\ UNCHANGED <<deploy_progress, uiVars, storeVars, fsVars, nOps, nCalls,
                   nLines, extractVars>>

(***************************************************************************)
(* TailLogs reads the history and the log file of the record it finds.     *)
(* The external tool writes both: it appends records to the history and    *)
(* writes log files.                                                       *)
(***************************************************************************)
\* The positions of the newlines of t between lo and hi, in order.
RECURSIVE Newlines(_, _, _)
Newlines(t, lo, hi) ==
    IF lo > hi THEN <<>>
    ELSE IF lo = hi THEN (IF t[lo] = "\n" THEN <<lo>> ELSE <<>>)
    ELSE Newlines(t, lo, (lo + hi) \div 2)
         \o Newlines(t, ((lo + hi) \div 2) + 1, hi)

\* The lines of t that end at the positions ends, and the rest of t as a
\* last line when the text goes on after the last of them.
LinesEndingAt(t, ends) ==
    [k \in 1..Len(ends) |->
        SubSeq(t, IF k = 1 THEN 1 ELSE ends[k - 1] + 1, ends[k] - 1)]
    \o (IF ends = <<>>
        THEN (IF t = <<>> THEN <<>> ELSE <<t>>)
        ELSE IF ends[Len(ends)] < Len(t)
        THEN <<SubSeq(t, ends[Len(ends)] + 1, Len(t))>>
        ELSE <<>>)

\* str.splitlines: the lines of t without their newlines.
SplitLines(t) == LinesEndingAt(t, Newlines(t, 1, Len(t)))

\* "\n".join(lines[lo..hi])
RECURSIVE JoinRange(_, _, _)
JoinRange(lines, lo, hi) ==
    IF lo > hi THEN <<>>
    ELSE IF lo = hi THEN lines[lo]
    ELSE JoinRange(lines, lo, (lo + hi) \div 2) \o <<"\n">>
         \o JoinRange(lines, ((lo + hi) \div 2) + 1, hi)

\* "\n".join(lines)
JoinLines(lines) == JoinRange(lines, 1, Len(lines))

\* lines[-n:]
LastLines(lines, n) ==
    SubSeq(lines, IF Len(lines) > n THEN Len(lines) - n + 1 ELSE 1, Len(lines))

\* str(value) inside an f-string.
PyStr(v) == IF v.kind = "null" THEN <<"None">> ELSE v.str

\* The positions of the records with the id.
Matches(recs, id) ==
    {i \in 1..Len(recs) : DictGet(recs[i], <<"id">>) = id}

\* The first record with the id.
FindFirstRecord(recs, id) ==
    LET at == Matches(recs, id) IN
    IF at = {} THEN JNull
    ELSE recs[CHOOSE i \in at : \A j \in at : i <= j]

\* next((r for r in data[::-1] if r.get("id") == record_id), None)
FindRecord(recs, id) ==
    LET at == Matches(recs, id) IN
    IF at = {} THEN JNull
    ELSE recs[CHOOSE i \in at : \A j \in at : j <= i]

\* str(e) of the JSONDecodeError on an empty history file.
DecodeError == <<"Expecting value", ":", " ", "line 1 column 1 (char 0)">>

NoStateFileText == <<"No deployments.json found.">>
\* A no-record message that reads like the no-logs one.
NoRecordFoundAsNoLogs(id) == <<"No logs found at ">> \o PyStr(id)

NoRecordFound(id) == <<"No record found for id ">> \o PyStr(id)
NoLogsFound(logs_path) == <<"No logs found at ">> \o PyStr(logs_path)

\* The call, up to state_file.exists(): without the file the call returns.
tool_tail_logs(id) ==
    /\ ~Busy
    /\ ~Reading
    /\ op' = "TailLogs"
    /\ request' = [NoRequest EXCEPT !.record_id = id]
    /\ opened' = {}
    /\ cmd' = <<>>
    /\ reported' = <<>>
    /\ buffer' = <<>>
    /\ NoRun
    /\ IF deployments.exists
       THEN /\ result' = NoResult
            /\ tail' = [pc |-> "read_history", logs_path |-> JNull]
       ELSE /\ result' = Return(NoStateFileText)
            /\ tail' = NotReading
    /\ UNCHANGED <<deploy_progress, uiVars, last_deploy_url, storeVars,
                   deployments, logfiles, nOps, nCalls, nLines, extractVars>>

\* What a step of a TailLogs call leaves alone.
TailFrame ==
    UNCHANGED <<op, runVars, buffer, deploy_progress, reported, uiVars,
                last_deploy_url, storeVars, callVars, deployments, logfiles,
                nOps, nCalls, nLines, extractVars>>

\* The call returns v.
TailReturn(v) == result' = Return(v) /\ tail' = NotReading

\* state_file.read_text, json.loads, the search of the record and its
\* logsPath: the call returns, or goes on to look for the log file.
TailReadHistory ==
    /\ tail.pc = "read_history"
    /\ LET rec == FindRecord(deployments.records, request.record_id)
           logs_path == DictGet(rec, <<"logsPath">>)
       IN  IF ~deployments.valid THEN TailReturn(ErrorPrefix \o DecodeError)
           ELSE IF ~Truthy(rec) THEN TailReturn(NoRecordFound(request.record_id))
           ELSE IF ~Truthy(logs_path) THEN TailReturn(NoLogsFound(logs_path))
           ELSE /\ result' = NoResult
                /\ tail' = [pc |-> "log_exists", logs_path |-> logs_path]
    /\ UNCHANGED opened
    /\ TailFrame

\* Path(logs_path).exists()
TailLogExists ==
    /\ tail.pc = "log_exists"
    /\ IF tail.logs_path.str \in DOMAIN logfiles /\ logfiles[tail.logs_path.str].exists
       THEN /\ result' = NoResult
            /\ tail' = [tail EXCEPT !.pc = "read_log"]
       ELSE TailReturn(NoLogsFound(tail.logs_path))
    /\ UNCHANGED opened
    /\ TailFrame

\* Path(logs_path).read_text, splitlines, [-200:] and the join.
TailReadLog ==
    /\ tail.pc = "read_log"
    /\ opened' = {tail.logs_path.str}
    /\ TailReturn(JoinLines(LastLines(
                     SplitLines(logfiles[tail.logs_path.str].content), TailLimit)))
    /\ TailFrame

\* The external tool appends a record to the history.
AppendRecord(rec) ==
    /\ deployments.valid
    /\ Len(deployments.records) < MaxRecords
    /\ deployments' = StateFile(Append(deployments.records, rec))
    /\ UNCHANGED <<op, runVars, buffer, deploy_progress, reported, uiVars,
                   last_deploy_url, result, storeVars, callVars, logfiles,
                   opened, tail, nOps, nCalls, nLines, extractVars>>

\* The history file is left empty: it no longer decodes.
TruncateHistory ==
    /\ deployments.exists
    /\ deployments.valid
    /\ deployments' = CorruptStateFile
    /\ UNCHANGED <<op, runVars, buffer, deploy_progress, reported, uiVars,
                   last_deploy_url, result, storeVars, callVars, logfiles,
                   opened, tail, nOps, nCalls, nLines, extractVars>>

\* The external tool writes a log file.
WriteLog(path, shape) ==
    /\ ~logfiles[path].exists
    /\ logfiles' =
          [logfiles EXCEPT ![path] = File(LogText(path, shape.n, shape.closed))]
    /\ UNCHANGED <<op, runVars, buffer, deploy_progress, reported, uiVars,
                   last_deploy_url, result, storeVars, callVars, deployments,
                   opened, tail, nOps, nCalls, nLines, extractVars>>

(***************************************************************************)
(* readline returns a line: the runner appends it to full and yields       *)
(* ("line", line); the tool's loop body handles the event.                 *)
(***************************************************************************)
RefreshEvery == 5

\* Only the last line of a stream can lack its newline.
EndsWithNewline(line) == line[Len(line)] = "\n"

\* full.append(line)
FullAppend(f, line) == Append(f, line)

\* yield: the event follows those already yielded.
Yield(evs, e) == Append(evs, e)

\* A snapshot that is taken only when the display is refreshed.
SnapshotBatched(buf, old) ==
    IF Len(buf) % RefreshEvery = 0 THEN Join(buf) ELSE old

\* st.session_state.current_logs = ''.join(buffer)
Snapshot(buf, old) == Join(buf)

\* The tools' handlers of a line event hold no return: the call goes on.
LineResult(res, line) == res

\* One pass of the runner's loop on a line, and of the tool's loop on its event.
ReadLine(line) ==
    /\ Busy
    /\ IF produced = <<>> THEN TRUE ELSE EndsWithNewline(produced[Len(produced)])
    /\ nLines' = nLines + 1
    /\ produced' = Append(produced, line)
    /\ full' = FullAppend(full, line)
    /\ events' = Yield(events, Event("line", line, 0))
    /\ buffer' = Append(buffer, line)
    /\ IF op = "Deploy"
       THEN /\ current_logs' = Snapshot(buffer', current_logs)
            /\ log_shown' = IF Len(buffer') % RefreshEvery = 0
                            THEN LogBox(EscapeLt(Join(buffer')))
                            ELSE log_shown
       ELSE UNCHANGED <<current_logs, log_shown>>
    /\ result' = LineResult(result, line)
    /\ UNCHANGED <<op, proc, fault, raised, deploy_progress, reported,
                   status_badge, last_deploy_url, storeVars, callVars,
                   fsVars, nOps, nCalls, extractVars>>

OnLine(line) == nLines < MaxLines /\ ReadLine(line)

\* The same step under the bound of the long runs.
OnLogLine(line) == nLines < MaxLogLines /\ ReadLine(line)

(***************************************************************************)
(* readline returns "": the runner closes stdout, waits for the exit code  *)
(* and yields ("end", (rc, "".join(full))); the tool handles it and        *)
(* returns.                                                                *)
(***************************************************************************)
\* A payload that holds the last line only.
EndPayloadLastLine(f) == IF f = <<>> THEN <<>> ELSE f[Len(f)]

\* "".join(full)
EndPayload(f) == Join(f)

\* A fallback to "{}" in place of the raw output.
LoadsOrEmpty(out) ==
    IF JsonLoads(out).ok THEN JsonDumps(JsonLoads(out).val) ELSE <<"{", "}">>

\* Plan and Diagnose: json.loads(full), then the dumped value or the raw output.
LoadsOrRaw(out) ==
    IF JsonLoads(out).ok THEN JsonDumps(JsonLoads(out).val) ELSE out

\* Deploy: final_json is the extracted object when it is truthy.
FinalJson(out) ==
    LET obj == extract_last_json_block(out) IN
    IF obj.some /\ Truthy(obj.val) THEN obj ELSE None

\* Deploy after its loop: the value it returns or the exception it raises.
DeployResult(final_json) ==
    LET url == IF final_json.some THEN DictGet(final_json.val, <<"url">>) ELSE JNull IN
    IF ~final_json.some THEN Return(JsonDumps(NoRecordError))
    ELSE IF Truthy(url) /\ url.kind # "str" THEN Raise(AttributeError)
    ELSE Return(JsonDumps(final_json.val))

\* Deploy after its loop: the progress updates it makes, in order.
DeployFinish(final_json) ==
    LET url == IF final_json.some THEN DictGet(final_json.val, <<"url">>) ELSE JNull IN
    IF ~final_json.some THEN <<>>
    ELSE IF ~Truthy(url) THEN <<VerifiedNoUrl>>
    ELSE IF url.kind = "str" THEN <<Previewed>>
    ELSE <<>>

\* Deploy after its loop: the cached URL.
DeployUrl(final_json, cached) ==
    LET url == IF final_json.some THEN DictGet(final_json.val, <<"url">>) ELSE JNull IN
    IF final_json.some /\ Truthy(url) /\ url.kind = "str"
    THEN Some(JStr(normalize_url(url.str)))
    ELSE cached

OnEnd(rc) ==
    /\ Busy
    /\ proc' = "exited"
    /\ LET out == EndPayload(full) IN
       /\ events' = Yield(events, Event("end", out, rc))
       /\ CASE op = "Plan" ->
                 /\ result' = Return(LoadsOrRaw(out))
                 /\ IF JsonLoads(out).ok
                    THEN /\ deploy_progress' = PlanCompleted
                         /\ reported' = Append(reported, PlanCompleted)
                    ELSE UNCHANGED <<deploy_progress, reported>>
                 /\ UNCHANGED <<uiVars, last_deploy_url>>
            [] op = "Diagnose" ->
                 /\ result' = Return(LoadsOrRaw(out))
                 /\ UNCHANGED <<deploy_progress, reported, uiVars, last_deploy_url>>
            [] op = "Deploy" ->
                 LET final_json == FinalJson(out)
                     updates == <<Verifying>> \o DeployFinish(final_json)
                 IN
                 /\ current_logs' = Join(buffer)
                 /\ log_shown' = LogBox(EscapeLt(Join(buffer)))
                 /\ status_badge' = <<"<span class='badge'>Deploy finished: ",
                                      IF rc = 0 THEN "success" ELSE "failed",
                                      "</span>">>
                 /\ reported' = reported \o updates
                 /\ deploy_progress' = updates[Len(updates)]
                 /\ last_deploy_url' = DeployUrl(final_json, last_deploy_url)
                 /\ result' = DeployResult(final_json)
    /\ UNCHANGED <<op, fault, produced, full, raised, buffer, storeVars,
                   callVars, fsVars, nOps, nCalls, nLines, extractVars>>

(***************************************************************************)
(* Reading, closing or waiting raises: the runner tries to kill the child  *)
(* and yields ("error", str(e)); the tool handles it and returns.          *)
(***************************************************************************)
\* What Plan and Diagnose return on an error event.
ErrorText(msg) == ErrorPrefix \o msg

\* An error event that starts the command again.
AfterErrorRetry(n) == [proc |-> "running", spawns |-> n + 1]

\* After the error event the runner's generator is exhausted and the tool
\* returns: Popen is not called again.
AfterError(n) == [proc |-> "killed", spawns |-> n]

OnError(msg) ==
    /\ Busy
    /\ proc' = AfterError(spawns).proc
    /\ spawns' = AfterError(spawns).spawns
    /\ fault' = "read"
    /\ events' = Yield(events, Event("error", msg, 0))
    /\ IF op = "Deploy"
       THEN /\ log_shown' = LogBox(ErrorPrefix \o msg)
            /\ result' = DeployResult(None)
       ELSE /\ result' = Return(ErrorText(msg))
            /\ UNCHANGED log_shown
    /\ UNCHANGED <<op, produced, full, raised, buffer, deploy_progress, reported,
                   current_logs, status_badge, last_deploy_url, storeVars,
                   request, cmd, fsVars, nOps, nCalls, nLines, extractVars>>

Next ==
    \/ \E spawned \in BOOLEAN : tool_plan_start(PlanDefault, spawned)
    \/ \E spawned \in BOOLEAN : tool_deploy_start(DeployDefault, spawned)
    \/ \E req \in {DiagnoseNoInput, DiagnoseById}, spawned \in BOOLEAN :
          tool_diagnose_start(req, spawned)
    \/ \E line \in OutputLines : OnLine(line)
    \/ \E rc \in ExitCodes : OnEnd(rc)
    \/ \E msg \in ReadErrors : OnError(msg)

Spec == Init /\ [][Next]_vars

\* The same calls when the spawned command does close its output and exit:
\* readline returns "" at last (line 120), unless a read has raised before.
\* The command writes three kinds of line, one with a url that is no str.
NextLive ==
    \/ \E spawned \in BOOLEAN : tool_plan_start(PlanDefault, spawned)
    \/ \E spawned \in BOOLEAN : tool_deploy_start(DeployDefault, spawned)
    \/ \E spawned \in BOOLEAN : tool_diagnose_start(DiagnoseById, spawned)
    \/ \E line \in {LineBuilding, LineUrl, LineUrlInt} : OnLine(line)
    \/ \E rc \in ExitCodes : OnEnd(rc)
    \/ OnError(<<"[Errno 5] Input/output error">>)

\* readline returns "" and wait returns: the step of OnEnd, as it shows on
\* proc.  It is possible exactly while a call is busy, and OnEnd is the only
\* action that takes proc from running to exited.
ProcessExits == Busy /\ proc' = "exited"

SpecLive == Init /\ [][NextLive]_vars /\ WF_proc(ProcessExits)

(***************************************************************************)
(* The session store: preferences are merged and commands are built from   *)
(* requests and the store.  The commands spawn, write one kind of line and *)
(* exit with code 0.                                                       *)
(***************************************************************************)
NextSession ==
    \/ \E req \in PrefRequests : tool_modify_plan(req)
    \/ \E req \in PlanRequests : tool_plan_start(req, TRUE)
    \/ \E req \in DeployRequests : tool_deploy_start(req, TRUE)
    \/ \E req \in DiagnoseRequests : tool_diagnose_start(req, TRUE)
    \/ OnLine(LineUrl)
    \/ OnEnd(0)

SpecSession == Init /\ [][NextSession]_vars

(***************************************************************************)
(* The preview: Deploy runs whose output carries a url, and ShowPreview.   *)
(***************************************************************************)
NextPreview ==
    \/ \E url \in PreviewUrls : tool_show_preview(url)
    \/ tool_deploy_start(DeployDefault, TRUE)
    \/ \E line \in UrlLines : OnLine(line)
    \/ OnEnd(0)

SpecPreview == Init /\ [][NextPreview]_vars

(***************************************************************************)
(* The log reader: the history and the log files are written, and TailLogs *)
(* is called on them.  The external tool can write between any two of the  *)
(* file-system calls of a TailLogs call.                                   *)
(***************************************************************************)
NextTail ==
    \/ \E rec \in HistoryRecords : AppendRecord(rec)
    \/ TruncateHistory
    \/ \E path \in LogPaths, shape \in LogShapes : WriteLog(path, shape)
    \/ \E id \in RecordIds : tool_tail_logs(id)
    \/ TailReadHistory
    \/ TailLogExists
    \/ TailReadLog

SpecTail == Init /\ [][NextTail]_vars

(***************************************************************************)
(* Long runs: Deploy reads more lines than one refresh of the display      *)
(* takes.                                                                  *)
(***************************************************************************)
LogLines == {LineBuilding, LineTag}

NextLogs ==
    \/ \E spawned \in BOOLEAN : tool_deploy_start(DeployDefault, spawned)
    \/ \E line \in LogLines : OnLogLine(line)
    \/ \E rc \in ExitCodes : OnEnd(rc)
    \/ \E msg \in ReadErrors : OnError(msg)

SpecLogs == Init /\ [][NextLogs]_vars

(***************************************************************************)
(* The extractor on its own: a text is put together piece by piece and     *)
(* extract_last_json_block is applied to it.                               *)
(***************************************************************************)
AddPiece(p) ==
    /\ nPieces < MaxPieces
    /\ text' = text \o p
    /\ nPieces' = nPieces + 1
    /\ extracted' = extract_last_json_block(text')
    /\ UNCHANGED bridgeVars

NextExtract == \E p \in Pieces : AddPiece(p)

SpecExtract == Init /\ [][NextExtract]_vars

(***************************************************************************)
(* Properties.                                                             *)
(***************************************************************************)
Terminal == {"end", "error"}

LastEvent == events[Len(events)]

\* run_cli_stream was called by the last tool call and is over.
RunOver == ~Busy /\ (proc # "none" \/ raised # <<>>)

\* The texts of the line events of evs, in order.
RECURSIVE LineTexts(_)
LineTexts(evs) ==
    IF evs = <<>> THEN <<>>
    ELSE (IF Head(evs).kind = "line" THEN <<Head(evs).text>> ELSE <<>>)
         \o LineTexts(Tail(evs))

\* m occurs in s.
Contains(s, m) ==
    \E i \in 1..(Len(s) - Len(m) + 1) : SubSeq(s, i, i + Len(m) - 1) = m

\* A complete object starts at s[i] and runs to the end of s, white space
\* aside.
ObjectAt(s, i) == s[i] = "{" /\ JsonLoads(Suffix(s, i)).ok

\* A complete object starts somewhere in s, whatever follows it.
ContainsObject(s) == \E i \in 1..Len(s) : s[i] = "{" /\ ScanOnce(s, i).ok

\* How deep the dicts of a value nest.
RECURSIVE Depth(_), MaxDepth(_)
MaxDepth(its) ==
    IF its = <<>> THEN 0
    ELSE LET d == Depth(its[1].val)
             r == MaxDepth(Tail(its))
         IN  IF d > r THEN d ELSE r
Depth(v) == IF v.kind = "dict" THEN 1 + MaxDepth(v.items) ELSE 0

\* The output of the run the last tool call consumed.
Output == Join(produced)

\* The serialized record Deploy returns when it captured no record.
NoRecordText ==
    <<"{", "\"", "type", "\"", ":", " ", "\"", "Error", "\"", ",", " ",
      "\"", "message", "\"", ":", " ", "\"",
      "Deploy finished but no JSON record captured.", "\"", "}">>

\* C1: in every run of run_cli_stream the events are line events followed by
\* exactly one terminal event (end or error), nothing follows the terminal
\* event, and end and error never both occur.  Stated as the claim; the run
\* whose Popen raises ends with no event at all.
C1_OneTerminalEvent ==
    /\ \A j \in 1..Len(events) :
          /\ events[j].kind \in {"line"} \cup Terminal
          /\ events[j].kind \in Terminal => j = Len(events)
    /\ RunOver => events # <<>> /\ LastEvent.kind \in Terminal

\* C2: the payload of the end event is the concatenation, in order, of the
\* texts of all line events before it, and the line events are the lines the
\* process produced, in the order it produced them.
C2_EndCarriesEveryLine ==
    /\ LineTexts(events) = produced
    /\ \A j \in 1..Len(events) :
          events[j].kind = "end" =>
             events[j].text = Join(LineTexts(SubSeq(events, 1, j - 1)))

C2_Witness ==
    /\ events # <<>>
    /\ LastEvent.kind = "end"
    /\ Len(produced) >= 2
    /\ produced[1] # produced[2]
    /\ LastEvent.text = produced[1] \o produced[2] \o Join(SubSeq(produced, 3, Len(produced)))

\* C3: a failed spawn or a failed read ends in exactly one error event with
\* a message, after a kill of the child when it was started, and nothing is
\* raised to the caller.  Stated as the claim; Popen is called outside the
\* try, so a failed spawn is raised.
C3_FailureBecomesErrorEvent ==
    fault # "none" =>
        /\ raised = <<>>
        /\ result.kind # "raise"
        /\ events # <<>>
        /\ LastEvent.kind = "error"
        /\ LastEvent.text # <<>>
        /\ Cardinality({j \in 1..Len(events) : events[j].kind = "error"}) = 1
        /\ fault = "read" => proc = "killed"

\* C4: a text made of a prefix that holds no parseable object and one
\* well-formed trailing object (white space may follow it) yields that object
\* unchanged; in general the result is the parse of the suffix at the
\* rightmost "{" whose suffix parses, and absent when there is none.
C4_TrailingObjectReturned ==
    LET starts == {i \in 1..Len(text) : ObjectAt(text, i)} IN
    /\ \A i \in starts :
          ~ContainsObject(SubSeq(text, 1, i - 1)) =>
             extracted = Some(JsonLoads(Suffix(text, i)).val)
    /\ extracted.some <=> starts # {}
    /\ starts # {} =>
          LET r == CHOOSE i \in starts : \A j \in starts : j <= i IN
          extracted.val = JsonLoads(Suffix(text, r)).val

C4_Witness ==
    /\ extracted.some
    /\ extracted.val.items # <<>>
    /\ \E i \in 2..Len(text) :
          /\ ObjectAt(text, i)
          /\ ~ContainsObject(SubSeq(text, 1, i - 1))
          /\ text[1] = "x"

\* C5: when the trailing object of the text holds nested objects, the result
\* is the outermost trailing object, found at its own opening brace and as
\* deep as it, never one of the objects nested in it.
C5_OutermostObject ==
    \A i \in 1..Len(text) :
       (ObjectAt(text, i) /\ Depth(JsonLoads(Suffix(text, i)).val) >= 2) =>
          /\ extracted.some
          /\ ExtractIndex(text, Len(text)) = i
          /\ Depth(extracted.val) = Depth(JsonLoads(Suffix(text, i)).val)
          /\ \A j \in (i + 1)..Len(text) :
                text[j] = "{" => extracted.val # JsonLoads(Suffix(text, j)).val

C5_Witness ==
    /\ extracted.some
    /\ Depth(extracted.val) >= 3
    /\ ExtractIndex(text, Len(text)) = 1

C7_StepNeverDecreases ==
    op = "Deploy" =>
        /\ reported # <<>>
        /\ deploy_progress = reported[Len(reported)]
        /\ \A j \in 1..Len(reported) : \A k \in j..Len(reported) :
              reported[j].step <= reported[k].step

C7_Witness ==
    /\ op = "Deploy"
    /\ proc = "exited"
    /\ Len(reported) = 3
    /\ reported[3].step = 4

\* C8: the end of the process of a Deploy sets progress to (3, active); then
\* a record with a non-empty url ends at (4, completed) with the normalized
\* url cached, and anything else ends at (3, completed) with the cached url
\* unchanged.  Stated as the claim; a run that yields no record returns
\* before the last update, and so does a url that is not a string.
C8_DeployEndProgress ==
    [][(op = "Deploy" /\ Busy /\ proc' = "exited") =>
         LET obj == extract_last_json_block(Join(full))
             url == IF obj.some THEN DictGet(obj.val, <<"url">>) ELSE JNull
         IN
         /\ Contains(reported', <<Progress(3, "active")>>)
         /\ IF url.kind = "str" /\ url.str # <<>>
            THEN /\ deploy_progress' = Progress(4, "completed")
                 /\ last_deploy_url' = Some(JStr(normalize_url(url.str)))
            ELSE /\ deploy_progress' = Progress(3, "completed")
                 /\ last_deploy_url' = last_deploy_url]_vars

\* C9: a Deploy whose process ended with no record to extract returns the
\* record of type Error with the message "Deploy finished but no JSON record
\* captured." and leaves progress at (3, completed).  Stated as the claim;
\* the early return leaves progress at (3, active).
C9_NoRecordEndsVerified ==
    (op = "Deploy" /\ proc = "exited" /\ ~extract_last_json_block(Output).some) =>
        /\ result = Return(NoRecordText)
        /\ deploy_progress = Progress(3, "completed")

\* C10: when the run of Plan, Deploy or Diagnose ends in an error event, the
\* value returned to the caller carries the message of that event.  Stated
\* as the claim; Deploy returns its fixed no-record message instead.
C10_ErrorMessageReturned ==
    (~Busy /\ events # <<>> /\ LastEvent.kind = "error") =>
        /\ result.kind = "return"
        /\ Contains(result.val, LastEvent.text)

(***************************************************************************)
(* Properties of the session store.                                        *)
(***************************************************************************)
\* The value a request gives to a preference field.
FieldOf(req, f) ==
    CASE f = "provider" -> req.provider
      [] f = "method" -> req.method
      [] f = "output_dir" -> req.output_dir
      [] f = "domain" -> req.domain

\* The ModifyPlan calls that supplied field f: those that passed a value
\* other than None and the empty string.
Suppliers(f) == {i \in 1..Len(prefCalls) : Truthy(FieldOf(prefCalls[i], f))}

Max(S) == CHOOSE m \in S : \A x \in S : x <= m

\* The step is a call of ModifyPlan.
ModifyPlanStep == op' = "ModifyPlan" /\ nCalls' = nCalls + 1

\* C11: after any sequence of ModifyPlan calls every preference field holds
\* the value of the latest call that supplied it, and is absent exactly when
\* no call has supplied it; so a call leaves the fields it does not supply
\* untouched and no field is ever removed.
C11_LastWriteWins ==
    \A f \in PrefFields :
        IF Suppliers(f) = {}
        THEN ~HasKey(prefs, <<f>>)
        ELSE /\ HasKey(prefs, <<f>>)
             /\ DictGet(prefs, <<f>>) = FieldOf(prefCalls[Max(Suppliers(f))], f)

\* A field was supplied twice with different values, and another field was
\* supplied before the latest of these calls and not by it.
C11_Witness ==
    \E f \in PrefFields, g \in PrefFields :
        /\ f # g
        /\ \E i \in Suppliers(f) :
              /\ i < Max(Suppliers(f))
              /\ FieldOf(prefCalls[i], f) # FieldOf(prefCalls[Max(Suppliers(f))], f)
        /\ Suppliers(g) # {}
        /\ Max(Suppliers(g)) < Max(Suppliers(f))
        /\ HasKey(prefs, <<g>>)

\* C12: a ModifyPlan call with the arguments of the ModifyPlan call just
\* before it leaves the preferences as that call left them and returns what
\* it returned.
C12_MergeIdempotent ==
    [][(ModifyPlanStep /\ op = "ModifyPlan" /\ request' = request)
          => prefs' = prefs /\ result' = result]_vars

\* ModifyPlan was called twice in a row with arguments that supply a field,
\* after a call that had given that field another value.
C12_Witness ==
    LET n == Len(prefCalls) IN
    /\ op = "ModifyPlan"
    /\ n >= 3
    /\ prefCalls[n] = prefCalls[n - 1]
    /\ request = prefCalls[n]
    /\ \E f \in PrefFields :
          /\ Truthy(FieldOf(prefCalls[n], f))
          /\ Truthy(FieldOf(prefCalls[n - 2], f))
          /\ FieldOf(prefCalls[n - 2], f) # FieldOf(prefCalls[n], f)

\* C20: a ModifyPlan call spawns no process, leaves the progress state, the
\* logs, the cached URL and the session id as they were, and returns a JSON
\* object whose preference fields are those of the preferences after the call.
C20_ModifyPlanFrame ==
    [][ModifyPlanStep =>
          /\ spawns' = 0 /\ proc' = "none" /\ events' = <<>> /\ cmd' = <<>>
          /\ deploy_progress' = deploy_progress
          /\ current_logs' = current_logs
          /\ log_shown' = log_shown
          /\ last_deploy_url' = last_deploy_url
          /\ session_id' = session_id
          /\ result'.kind = "return"
          /\ \E returned \in {JsonLoads(result'.val)} :
             /\ returned.ok
             /\ returned.val.kind = "dict"
             /\ \A f \in PrefFields :
                   /\ HasKey(returned.val, <<f>>) = HasKey(prefs', <<f>>)
                   /\ DictGet(returned.val, <<f>>) = DictGet(prefs', <<f>>)]_vars

\* ModifyPlan has changed the preferences of a session that has deployed:
\* there are a progress state, logs and a cached URL to leave alone.
C20_Witness ==
    /\ op = "ModifyPlan"
    /\ Suppliers("provider") # {}
    /\ Max(Suppliers("provider")) = Len(prefCalls)
    /\ deploy_progress = Previewed
    /\ current_logs # <<>>
    /\ last_deploy_url.some

\* The value that follows the option name on command line c, <<>> when the
\* option is not on it.
OptionValue(c, name) ==
    LET at == {i \in 1..Len(c) : c[i] = name} IN
    IF at = {} THEN <<>> ELSE <<c[Max(at) + 2]>>

OptionName(f) == IF f = "provider" THEN "--provider" ELSE "--method"

\* C13: the command Plan or Deploy builds carries the session id of the
\* request, or the one of the session store when the request has none; and
\* for provider and method it carries the value of the request when the
\* request has one, the stored preference when only that exists, and no
\* option otherwise.  A field is unset when it is None or the empty string;
\* Deploy takes no provider and no method.
C13_ExplicitOverridesStored ==
    op \in {"Plan", "Deploy"} =>
        /\ OptionValue(cmd, "--session") =
              (IF Truthy(request.session_id) THEN request.session_id.str
               ELSE session_id.str)
        /\ \A f \in {"provider", "method"} :
              OptionValue(cmd, OptionName(f)) =
                 (IF Truthy(FieldOf(request, f)) THEN FieldOf(request, f).str
                  ELSE IF HasKey(prefs, <<f>>) THEN DictGet(prefs, <<f>>).str
                  ELSE <<>>)

\* Plan was called with a provider and a session id of its own while another
\* provider was stored.
C13_Witness ==
    /\ op = "Plan"
    /\ Truthy(request.provider)
    /\ HasKey(prefs, <<"provider">>)
    /\ DictGet(prefs, <<"provider">>) # request.provider
    /\ Truthy(request.session_id)
    /\ request.session_id # session_id
    /\ cmd # <<>>

\* The step is a call of Diagnose with neither a log path nor a record id.
DiagnoseBareStep ==
    /\ op' = "Diagnose"
    /\ nOps' = nOps + 1
    /\ ~Truthy(request'.log_path)
    /\ ~Truthy(request'.record_id)

\* C14: a Diagnose call with neither a log path nor a record id returns the
\* error text, calls Popen not once, and leaves the preferences, the progress
\* state, the logs and the cached URL as they were.
C14_DiagnoseFailsFast ==
    [][DiagnoseBareStep =>
          /\ result' = Return(<<"Error", ":", " ",
                                "Provide either log_path or record_id.">>)
          /\ spawns' = 0 /\ proc' = "none" /\ events' = <<>> /\ cmd' = <<>>
          /\ prefs' = prefs
          /\ deploy_progress' = deploy_progress
          /\ current_logs' = current_logs
          /\ log_shown' = log_shown
          /\ last_deploy_url' = last_deploy_url]_vars

\* Diagnose was called with neither in a session that has preferences, a
\* progress state, logs and a cached URL.
C14_Witness ==
    /\ op = "Diagnose"
    /\ ~Truthy(request.log_path)
    /\ ~Truthy(request.record_id)
    /\ result.kind = "return"
    /\ prefs.items # <<>>
    /\ deploy_progress = Previewed
    /\ current_logs # <<>>
    /\ last_deploy_url.some

(***************************************************************************)
(* Properties of the log reader.                                           *)
(***************************************************************************)
\* The step is the read of a history file that decodes, by a TailLogs call.
HistoryReadStep ==
    /\ tail.pc = "read_history"
    /\ tail' # tail
    /\ deployments.valid

\* The step is the look of a TailLogs call for its log file.
LogLookStep == tail.pc = "log_exists" /\ tail' # tail

\* The step is the read of the log file by a TailLogs call.
LogReadStep == tail.pc = "read_log" /\ tail' # tail

\* The positions of the history records with the id asked for.
Hits(id) ==
    {i \in 1..Len(deployments.records) :
        \E j \in 1..Len(deployments.records[i].items) :
            /\ deployments.records[i].items[j].key = <<"id">>
            /\ deployments.records[i].items[j].val = id}

\* The log path of the last history record with the id, <<>> when the
\* record has none.
LastHitPath(id) ==
    LET rec == deployments.records[Max(Hits(id))] IN
    IF HasKey(rec, <<"logsPath">>) THEN DictGet(rec, <<"logsPath">>).str ELSE <<>>

\* The last history record with the id asked for points to a log file that
\* exists.
LastHitHasLog(id) ==
    /\ Hits(id) # {}
    /\ LastHitPath(id) \in LogPaths
    /\ logfiles[LastHitPath(id)].exists

\* C15: a TailLogs call that reads a history that decodes and holds no
\* record with its id returns "No record found for id <id>" and reads no log
\* file; a call whose record has no log path, or whose log file does not
\* exist when the call looks for it, returns a "No logs found at" message,
\* another text, and reads no log file either.  These calls return a value,
\* and a log file is read only by a call that has found it to exist.
C15_SoftErrors ==
    [][/\ HistoryReadStep =>
             /\ Hits(request.record_id) = {} =>
                   /\ result' = Return(<<"No record found for id ">>
                                          \o request.record_id.str)
                   /\ opened' = {}
                   /\ ~Reading'
             /\ (Hits(request.record_id) # {} /\ LastHitPath(request.record_id) = <<>>) =>
                   /\ result'.kind = "return"
                   /\ StartsWith(result'.val, <<"No logs found at ">>)
                   /\ result'.val # <<"No record found for id ">>
                                        \o request.record_id.str
                   /\ opened' = {}
                   /\ ~Reading'
       /\ (LogLookStep /\ ~logfiles[tail.logs_path.str].exists) =>
             /\ result' = Return(<<"No logs found at ">> \o tail.logs_path.str)
             /\ result'.val # <<"No record found for id ">>
                                  \o request.record_id.str
             /\ opened' = {}
             /\ ~Reading'
       /\ (opened' # opened /\ opened' # {}) =>
             /\ tail.pc = "read_log"
             /\ logfiles[tail.logs_path.str].exists]_vars

\* TailLogs was asked for an id no record has, on a history with records
\* whose log files exist, and has returned.
C15_Witness ==
    /\ op = "TailLogs"
    /\ ~Reading
    /\ deployments.exists
    /\ deployments.valid
    /\ deployments.records # <<>>
    /\ Hits(request.record_id) = {}
    /\ \A path \in LogPaths : logfiles[path].exists
    /\ opened = {}
    /\ result = Return(<<"No record found for id ", "d9">>)

\* The text of lines first..last of the log file at path, joined by newlines.
NumberedLines(path, first, last) ==
    [k \in 1..(4 * (last - first + 1) - 1) |->
        IF (k - 1) % 4 = 0 THEN path[1]
        ELSE IF (k - 1) % 4 = 1 THEN ":"
        ELSE IF (k - 1) % 4 = 2 THEN ToString(first + ((k - 1) \div 4))
        ELSE "\n"]

\* The number of lines of a log text: its newlines, and a last line that
\* lacks one.
LineCount(t) ==
    Cardinality({i \in 1..Len(t) : t[i] = "\n"})
    + (IF t # <<>> /\ t[Len(t)] # "\n" THEN 1 ELSE 0)

\* C16: a TailLogs call that reads a history where some records have its
\* id goes on with the log path of the last of them; it keeps that path to
\* its end; and when it reads the log file it reads the file at that path
\* and no other, and returns the last 200 lines of the file in their order,
\* or all its lines when it has fewer.
C16_LastRecordLastLines ==
    [][/\ (HistoryReadStep /\ Hits(request.record_id) # {}
             /\ LastHitPath(request.record_id) # <<>>) =>
             tail' = [pc |-> "log_exists",
                      logs_path |-> JStr(LastHitPath(request.record_id))]
       /\ (tail.pc \in {"log_exists", "read_log"} /\ Reading') =>
             tail'.logs_path = tail.logs_path
       /\ LogReadStep =>
             \E path \in {tail.logs_path.str} :
             \E n \in {LineCount(logfiles[path].content)} :
             \E first \in {IF n > 200 THEN n - 199 ELSE 1} :
                 /\ opened' = {path}
                 /\ ~Reading'
                 /\ result' = Return(IF n = 0 THEN <<>>
                                     ELSE NumberedLines(path, first, n))]_vars

\* TailLogs has read a file of more than 200 lines for an id that an earlier
\* record with another log file has too.
C16_Witness ==
    /\ op = "TailLogs"
    /\ ~Reading
    /\ deployments.exists
    /\ deployments.valid
    /\ LastHitHasLog(request.record_id)
    /\ opened = {LastHitPath(request.record_id)}
    /\ LineCount(logfiles[LastHitPath(request.record_id)].content) > 200
    /\ LineCount(result.val) = 200
    /\ \E i \in Hits(request.record_id) :
          /\ i < Max(Hits(request.record_id))
          /\ DictGet(deployments.records[i], <<"logsPath">>).str
                # LastHitPath(request.record_id)
          /\ logfiles[DictGet(deployments.records[i], <<"logsPath">>).str].exists

(***************************************************************************)
(* Properties of the logs and of the spawns.                               *)
(***************************************************************************)
\* C17: from the start of a Deploy call on, the logs exposed for copy and
\* download hold lines of that call only: they are a prefix of the output
\* the call has read so far.
C17_NoEarlierLines ==
    op = "Deploy" => StartsWith(Join(produced), current_logs)

\* C18: in a Deploy run, once a line event has been yielded the stored
\* snapshot is the concatenation of the lines of all line events so far;
\* while the run goes on the display shows the lines up to the last multiple
\* of 5, and after the end event it shows them all.
C18_SnapshotNeverBatched ==
    (op = "Deploy" /\ proc \in {"running", "exited"}) =>
        \E lines \in {LineTexts(events)} :
            /\ lines # <<>> => current_logs = Join(lines)
            /\ (proc = "running" /\ Len(lines) >= 5) =>
                  log_shown =
                     LogBox(EscapeLt(Join(SubSeq(lines, 1, 5 * (Len(lines) \div 5)))))
            /\ proc = "exited" =>
                  /\ current_logs = Join(lines)
                  /\ log_shown = LogBox(EscapeLt(Join(lines)))

\* A Deploy run has read six lines and goes on: the snapshot holds six
\* lines, the display five.
C18_Witness ==
    /\ op = "Deploy"
    /\ proc = "running"
    /\ Len(LineTexts(events)) = 6
    /\ current_logs = Join(produced)
    /\ log_shown = LogBox(EscapeLt(Join(SubSeq(produced, 1, 5))))
    /\ log_shown # LogBox(EscapeLt(current_logs))

\* C19: a tool call calls Popen at most once, and the count of a call grows
\* only in the step that starts the call: no event of the run, whatever it
\* is, starts the command again.
C19_NoRetry ==
    [][/\ spawns' <= 1
       /\ spawns' > spawns => nOps' = nOps + 1]_vars

\* The last call of the session has failed, with an error event or with a
\* non-zero exit code, and its command was started once.
C19_Witness ==
    /\ spawns = 1
    /\ nOps = MaxOps
    /\ RunOver
    /\ \/ proc = "killed" /\ LastEvent.kind = "error"
       \/ proc = "exited" /\ LastEvent.kind = "end" /\ LastEvent.rc # 0

(***************************************************************************)
(* Properties of the progress state across calls.                          *)
(***************************************************************************)
\* The calls of update_progress_step made in the step, in order.
StepUpdates ==
    IF nOps' = nOps + 1 THEN reported'
    ELSE IF Len(reported') >= Len(reported)
    THEN SubSeq(reported', Len(reported) + 1, Len(reported'))
    ELSE <<>>

\* The progress states the step passes through, from the one it starts in.
StepTrace == <<deploy_progress>> \o StepUpdates

ProgressStates ==
    [step : 0..4, status : {"idle", "active", "completed", "failed"}]

\* C21: the progress state starts in and stays in step 0..4 with a status
\* of idle, active, completed or failed, and no call of update_progress_step
\* takes it from status idle to status completed.
C21_NoIdleToCompleted ==
    /\ deploy_progress \in ProgressStates
    /\ [][/\ deploy_progress' \in ProgressStates
          /\ StepTrace[Len(StepTrace)] = deploy_progress'
          /\ \A i \in 1..(Len(StepTrace) - 1) :
                ~(StepTrace[i].status = "idle"
                  /\ StepTrace[i + 1].status = "completed")]_vars

\* A Plan and then a Deploy have taken the progress state from (0, idle)
\* to (4, completed).
C21_Witness ==
    /\ op = "Deploy"
    /\ nOps = 2
    /\ reported = <<DeployStarted, Verifying, Previewed>>
    /\ deploy_progress = Previewed

\* The last run has failed: its process has exited with a non-zero code, or
\* its last event is an error event.
RunFailed ==
    /\ RunOver
    /\ events # <<>>
    /\ \/ LastEvent.kind = "error"
       \/ LastEvent.kind = "end" /\ LastEvent.rc # 0

\* No call of update_progress_step passes the status failed.
StatusNeverFailed ==
    /\ deploy_progress.status # "failed"
    /\ \A i \in 1..Len(reported) : reported[i].status # "failed"

\* C22: the executions that are to take the progress state from an active
\* step to status failed do so: after a Deploy whose process has exited
\* with a non-zero code, or whose run has ended in an error event, the
\* progress status is failed.
C22_FailedReached ==
    (op = "Deploy" /\ RunFailed) => deploy_progress.status = "failed"

\* The step starts a Deploy call after at least one earlier call.
NextDeployStep == op' = "Deploy" /\ nOps' = nOps + 1 /\ nOps >= 1

Idle == Progress(0, "idle")

\* C23 as claimed: a Deploy call started after an earlier call has finished
\* does not lower the progress step, and does not return the progress state
\* to (0, idle).
C23_StepNeverDecreasesAcrossCalls ==
    [][NextDeployStep =>
          /\ deploy_progress'.step >= deploy_progress.step
          /\ deploy_progress' # Idle]_vars

\* C23: a Deploy call started after an earlier call sets the progress state
\* to (2, active) in one update, whatever state the earlier call has left;
\* the progress state never returns to (0, idle); and the step is lowered
\* only by the first update of a new Plan or Deploy call.
C23_RestartsWithoutReset ==
    [][/\ NextDeployStep => StepTrace = <<deploy_progress, Progress(2, "active")>>
       /\ deploy_progress # Idle => deploy_progress' # Idle
       /\ \A i \in 1..(Len(StepTrace) - 1) :
             StepTrace[i + 1].step < StepTrace[i].step =>
                /\ nOps' = nOps + 1
                /\ op' \in {"Plan", "Deploy"}
                /\ i = 1]_vars

\* A Deploy has been started after a Deploy that ended at (4, completed):
\* the step has gone from 4 to 2.
C23_Witness ==
    /\ op = "Deploy"
    /\ nOps = 2
    /\ Busy
    /\ deploy_progress = Progress(2, "active")
    /\ last_deploy_url.some

\* C24: a Plan call sets progress to (1, active) when it starts; progress is
\* (1, completed) exactly when the run has ended with an end event and the
\* whole output decodes, and the decoded value is returned serialized;
\* otherwise progress stays at (1, active), and the call returns the raw
\* output (end event, output does not decode) or the error text (error
\* event).
C24_PlanProgress ==
    op = "Plan" =>
        /\ reported # <<>> /\ reported[1] = Progress(1, "active")
        /\ deploy_progress \in {Progress(1, "active"), Progress(1, "completed")}
        /\ deploy_progress = Progress(1, "completed")
               <=> (proc = "exited" /\ JsonLoads(Output).ok)
        /\ proc = "exited" =>
               /\ LastEvent.kind = "end"
               /\ result = IF JsonLoads(Output).ok
                           THEN Return(JsonDumps(JsonLoads(Output).val))
                           ELSE Return(Output)
        /\ proc = "killed" =>
               /\ LastEvent.kind = "error"
               /\ result = Return(ErrorPrefix \o LastEvent.text)

\* A Plan whose output, one line holding an object, decodes has ended at
\* (1, completed).
C24_Witness ==
    /\ op = "Plan"
    /\ proc = "exited"
    /\ produced = <<LineNested>>
    /\ JsonLoads(Output).ok
    /\ reported = <<Progress(1, "active"), Progress(1, "completed")>>
    /\ deploy_progress = Progress(1, "completed")

HasScheme(u) == StartsWith(u, Http) \/ StartsWith(u, Https)

\* The cached preview URL is a str that normalize_url leaves unchanged: the
\* empty str, or a str that begins with a scheme.
CachedUrlNormalized ==
    last_deploy_url.some =>
        /\ last_deploy_url.val.kind = "str"
        /\ last_deploy_url.val.str = <<>> \/ HasScheme(last_deploy_url.val.str)
        /\ normalize_url(last_deploy_url.val.str) = last_deploy_url.val.str

\* C25: after any sequence of Deploy and ShowPreview calls the cached preview
\* URL is unset or begins with "http://" or "https://", and normalizing it
\* again returns it unchanged.
C25_CachedUrlHasScheme ==
    last_deploy_url.some =>
        /\ last_deploy_url.val.kind = "str"
        /\ HasScheme(last_deploy_url.val.str)
        /\ normalize_url(last_deploy_url.val.str) = last_deploy_url.val.str

(***************************************************************************)
(* Blocking and termination of a call.                                     *)
(***************************************************************************)
\* The events of the run are line events followed by one terminal event.
RunEnded ==
    /\ events # <<>>
    /\ LastEvent.kind \in Terminal
    /\ \A i \in 1..(Len(events) - 1) : events[i].kind = "line"

\* run_cli_stream was called by the last tool call: Popen was called, and
\* has started the command or raised.
RunCalled == op \in {"Plan", "Deploy", "Diagnose"} /\ spawns > 0

\* What does hold of a call: it has no result while the run goes on, whatever
\* the number of lines read; a call whose command has ended has a result, a
\* value or an exception, after the terminal event of the run; and when the
\* command closes its output and exits, the call ends.
BlockedWhileRunning ==
    /\ [](Busy => result = NoResult /\ (events = <<>> \/ LastEvent.kind = "line"))
    /\ []((proc \in {"exited", "killed"}) => result # NoResult /\ RunEnded)
    /\ (Busy ~> (~Busy /\ result # NoResult /\ RunEnded))

\* C26 as claimed: a call of Plan, Deploy or Diagnose that runs its command
\* has no result while the run goes on; when it is over it has returned a
\* value, and the run has produced its terminal event before; and when the
\* command closes its output and exits, the call returns a value.
C26_ReturnsAfterTerminal ==
    /\ [](Busy => result = NoResult)
    /\ []((RunCalled /\ ~Busy) => result.kind = "return" /\ RunEnded)
    /\ (Busy ~> (~Busy /\ result.kind = "return" /\ RunEnded))
====
